---- MODULE Spec2Model ----
(***************************************************************************)
(* Model of proteinfoundation/nn/protein_transformer.py: the trunk         *)
(* orchestrator ProteinTransformerAF3, its trunk block                     *)
(* MultiheadAttnAndTransition, the pair updater PairReprUpdate, the pair   *)
(* builder PairReprBuilder and the register augmentation.                  *)
(*                                                                         *)
(* Tensors are sequences.  The batch axis is elided (one batch element):   *)
(* a token tensor [n, d] is a sequence of n vectors, a pair tensor         *)
(* [n, n, p] a sequence of n rows of n vectors, a mask [n] a sequence of   *)
(* booleans.  Feature widths are token_dim = 2, pair_repr_dim = 2,         *)
(* dim_cond = 1; coordinates have width 3.  With width 2 a layer norm is   *)
(* exactly the sign of the difference of the two features (eps -> 0), so   *)
(* all arithmetic stays in the integers.  Python's None is <<>>, a present *)
(* optional value v is <<v>>.                                              *)
(***************************************************************************)
EXTENDS Integers, Sequences, FiniteSets, TLC

VARIABLES kwargs, self, pc, batch_nn, mask, c, seqs, pair_rep, i,
          final_coors, nn_out, trace

vars == <<kwargs, self, pc, batch_nn, mask, c, seqs, pair_rep, i,
          final_coors, nn_out, trace>>

(***************************************************************************)
(* Bounds of the model.                                                    *)
(***************************************************************************)
MaxLayers == 6
MaxEveryN == 3
MaxRegisters == 2
MaxN == 2
MaxMaskings == 3

(***************************************************************************)
(* Optional values, vectors, masks.                                        *)
(***************************************************************************)
None == <<>>
Some(v) == <<v>>
IsNone(o) == o = <<>>
Get(o) == o[1]

B2I(b) == IF b THEN 1 ELSE 0
Sgn(a) == IF a > 0 THEN 1 ELSE IF a < 0 THEN -1 ELSE 0

RECURSIVE SumSeq(_)
SumSeq(s) == IF s = <<>> THEN 0 ELSE Head(s) + SumSeq(Tail(s))

Zeros(d) == [k \in 1..d |-> 0]
VAdd(u, v) == [k \in DOMAIN u |-> u[k] + v[k]]
VScale(a, v) == [k \in DOMAIN v |-> a * v[k]]
Dot(u, v) == SumSeq([k \in DOMAIN u |-> u[k] * v[k]])

\* torch.nn.Linear: one weight row per output feature, optional bias
Linear(W, bias, v) == [o \in DOMAIN W |-> Dot(W[o], v) + bias[o]]

\* torch.nn.LayerNorm over two features: (a, b) normalises to
\* (sgn(a-b), sgn(b-a)), then the elementwise affine map
LayerNorm(gamma, beta, v) ==
    [k \in 1..2 |-> gamma[k] * Sgn(v[k] - v[3 - k]) + beta[k]]

\* x * mask[..., None]
MulTokenMask(x, m) == [p \in DOMAIN x |-> VScale(B2I(m[p]), x[p])]

\* mask[:, None, :] * mask[:, :, None]
PairMask(m) == [p \in DOMAIN m |-> [q \in DOMAIN m |-> B2I(m[p]) * B2I(m[q])]]

TAdd(x, y) == [p \in DOMAIN x |-> VAdd(x[p], y[p])]
PAdd(x, y) == [p \in DOMAIN x |-> [q \in DOMAIN x[p] |-> VAdd(x[p][q], y[p][q])]]

(***************************************************************************)
(* Collaborators whose code is outside the file: the feature factory, the  *)
(* adaptive layer norms, SwiGLU, the pair-bias attention kernel and the    *)
(* openfold pair layers.  Each is a fixed integer-valued operator with the *)
(* tensor contract the core relies on; none of them is assumed to mask     *)
(* its output unless its contract says so.                                 *)
(***************************************************************************)
\* FeatureFactory(mode="seq"), initial token features [n, token_dim]
SeqFeatures(batch) == [p \in DOMAIN batch.mask |-> <<p, 1>>]

\* FeatureFactory(mode="seq"), conditioning features [n, dim_cond]
CondFeatures(batch) == [p \in DOMAIN batch.mask |-> <<batch.t>>]

\* FeatureFactory(mode="pair"), pair features [n, n, pair_repr_dim]
PairFeatures(batch) ==
    [p \in DOMAIN batch.mask |-> [q \in DOMAIN batch.mask |-> <<p - q, 1>>]]

\* FeatureFactory(mode="pair"), pair conditioning features [n, n, dim_cond]
PairCondFeatures(batch) ==
    [p \in DOMAIN batch.mask |-> [q \in DOMAIN batch.mask |-> <<batch.t>>]]

\* SwiGLU: chunk in two halves, first half times the gate of the second
SwiGLU(h) ==
    LET half == Len(h) \div 2
    IN  [k \in 1..half |-> h[k] * h[half + k]]

\* AdaptiveLayerNorm on tokens: normalise, shift by the conditioning, mask
AdaptiveLayerNorm(x, cond, m) ==
    [p \in DOMAIN x |->
        VScale(B2I(m[p]),
               VAdd(LayerNorm(<<1, 1>>, <<0, 0>>, x[p]),
                    <<cond[p][1], cond[p][1]>>))]

\* AdaptiveLayerNorm on pair cells, masked by the pair mask
AdaptiveLayerNormPair(z, cond, pm) ==
    [p \in DOMAIN z |-> [q \in DOMAIN z[p] |->
        VScale(pm[p][q],
               VAdd(LayerNorm(<<1, 1>>, <<0, 0>>, z[p][q]),
                    <<cond[p][q][1], cond[p][q][1]>>))]]

\* AdaptiveLayerNormOutputScale: gate computed from the conditioning, mask
AdaptiveLayerNormOutputScale(x, cond, m) ==
    [p \in DOMAIN x |-> VScale(B2I(m[p]) * (1 + cond[p][1]), x[p])]

\* PairBiasAttention(node_feats, pair_feats, mask=pair_mask): every query p
\* pools the values of the keys q its mask row allows, weighted by 1 plus
\* the pair bias (no bias when pair_feats is None), then the output
\* projection with bias
PairBiasAttention(node_feats, pair_feats, pm) ==
    [p \in DOMAIN node_feats |->
        LET w(q) == pm[p][q] *
                    (1 + IF IsNone(pair_feats) THEN 0
                         ELSE Sgn(Get(pair_feats)[p][q][1]))
            pooled == [k \in 1..2 |->
                SumSeq([q \in DOMAIN node_feats |-> w(q) * node_feats[q][k]])]
        IN  VAdd(pooled, <<1, 0>>)]

\* openfold PairTransition(z, mask): norm, linear, relu, linear, mask
PairTransition(z, pm) ==
    [p \in DOMAIN z |-> [q \in DOMAIN z[p] |->
        LET h == LayerNorm(<<1, 1>>, <<0, 1>>, z[p][q])
            relu == [k \in 1..2 |-> IF h[k] > 0 THEN h[k] ELSE 0]
        IN  VScale(pm[p][q], Linear(<<<<1, 0>>, <<1, 1>>>>, <<1, 0>>, relu))]]

\* openfold triangle projections a, b of the normalised, masked pair tensor
TriProj(z, pm, k) ==
    [p \in DOMAIN z |-> [q \in DOMAIN z[p] |->
        pm[p][q] * LayerNorm(<<1, 1>>, <<0, 0>>, z[p][q])[k]]]

\* openfold TriangleMultiplicationOutgoing(z, mask): sum_k a[i,k] * b[j,k]
TriangleMultiplicationOutgoing(z, pm) ==
    LET a == TriProj(z, pm, 1)
        b == TriProj(z, pm, 2)
    IN  [p \in DOMAIN z |-> [q \in DOMAIN z[p] |->
            LET s == SumSeq([k \in DOMAIN z |-> a[p][k] * b[q][k]])
            IN  <<Sgn(s) + 1, Sgn(s)>>]]

\* openfold TriangleMultiplicationIncoming(z, mask): sum_k a[k,i] * b[k,j]
TriangleMultiplicationIncoming(z, pm) ==
    LET a == TriProj(z, pm, 1)
        b == TriProj(z, pm, 2)
    IN  [p \in DOMAIN z |-> [q \in DOMAIN z[p] |->
            LET s == SumSeq([k \in DOMAIN z |-> a[k][p] * b[k][q]])
            IN  <<Sgn(s), Sgn(s) + 1>>]]

(***************************************************************************)
(* Learned parameters: one fixed, non-degenerate set of values.            *)
(***************************************************************************)
\* self.registers [num_registers, token_dim]
Registers(r) == [k \in 1..r |-> <<k, -1>>]
\* self.linear_3d_embed, Linear(3, token_dim, bias=False)
W_linear_3d_embed == <<<<1, 0, 1>>, <<0, 1, 0>>>>
\* self.coors_3d_decoder: LayerNorm(token_dim), Linear(token_dim, 3, bias=False)
LN_coors_3d_decoder == [gamma |-> <<1, 1>>, beta |-> <<1, 0>>]
W_coors_3d_decoder == <<<<1, 0>>, <<0, 1>>, <<1, 1>>>>
\* self.pair_head_prediction: LayerNorm(pair_repr_dim), Linear(pair_repr_dim, buckets)
LN_pair_head == [gamma |-> <<1, 1>>, beta |-> <<0, 0>>]
W_pair_head(buckets) == [o \in 1..buckets |-> <<o, 1>>]
B_pair_head(buckets) == [o \in 1..buckets |-> o]
\* Transition(dim_cond): Linear(dim, 2 * inner, bias=False), Linear(inner, dim, bias=False)
W_transition_c_1 == [win |-> <<<<1>>, <<1>>>>, wout |-> <<<<1>>>>]
W_transition_c_2 == [win |-> <<<<1>>, <<2>>>>, wout |-> <<<<1>>>>]
\* TransitionADALN.transition (token_dim)
W_transition == [win |-> <<<<1, 0>>, <<0, 1>>, <<1, 1>>, <<1, 0>>>>,
                 wout |-> <<<<1, 1>>, <<0, 1>>>>]
\* PairReprUpdate.layer_norm_in and linear_x, Linear(token_dim, 2 * pair_dim, bias=False)
LN_layer_norm_in == [gamma |-> <<1, 1>>, beta |-> <<0, 1>>]
W_linear_x == <<<<1, 0>>, <<0, 1>>, <<2, 0>>, <<0, 3>>>>

(***************************************************************************)
(* Transition, TransitionADALN, MultiHeadBiasedAttentionADALN_MM.          *)
(***************************************************************************)
\* Transition.forward with layer_norm=False
Transition(W, x, m) ==
    MulTokenMask(
        [p \in DOMAIN x |->
            Linear(W.wout, Zeros(Len(W.wout)),
                   SwiGLU(Linear(W.win, Zeros(Len(W.win)), x[p])))],
        m)

\* TransitionADALN.forward
TransitionADALN(x, cond, m) ==
    LET x1 == AdaptiveLayerNorm(x, cond, m)
        x2 == Transition(W_transition, x1, m)
        x3 == AdaptiveLayerNormOutputScale(x2, cond, m)
    IN  MulTokenMask(x3, m)

\* MultiHeadBiasedAttentionADALN_MM.forward
MultiHeadBiasedAttentionADALN_MM(x, pair, cond, m) ==
    LET pair_mask == PairMask(m)
        x1 == AdaptiveLayerNorm(x, cond, m)
        x2 == PairBiasAttention(x1, pair, pair_mask)
        x3 == AdaptiveLayerNormOutputScale(x2, cond, m)
    IN  MulTokenMask(x3, m)

(***************************************************************************)
(* MultiheadAttnAndTransition.                                             *)
(***************************************************************************)
\* variant: both residual flags kept as requested in parallel mode
MultiheadAttnAndTransition_init_keep(residual_mha, residual_transition, parallel_mha_transition, use_attn_pair_bias) ==
    [parallel |-> parallel_mha_transition,
     use_attn_pair_bias |-> use_attn_pair_bias,
     residual_mha |-> residual_mha,
     residual_transition |-> residual_transition]

\* variant: both residual flags cleared in parallel mode
MultiheadAttnAndTransition_init_both_off(residual_mha, residual_transition, parallel_mha_transition, use_attn_pair_bias) ==
    [parallel |-> parallel_mha_transition,
     use_attn_pair_bias |-> use_attn_pair_bias,
     residual_mha |->
        IF parallel_mha_transition /\ residual_mha /\ residual_transition
        THEN FALSE ELSE residual_mha,
     residual_transition |->
        IF parallel_mha_transition /\ residual_mha /\ residual_transition
        THEN FALSE ELSE residual_transition]

\* MultiheadAttnAndTransition.__init__: the block's fields
MultiheadAttnAndTransition_init(residual_mha, residual_transition, parallel_mha_transition, use_attn_pair_bias) ==
    [parallel |-> parallel_mha_transition,
     use_attn_pair_bias |-> use_attn_pair_bias,
     residual_mha |-> residual_mha,
     residual_transition |->
        IF parallel_mha_transition /\ residual_mha /\ residual_transition
        THEN FALSE ELSE residual_transition]

_apply_mha(blk, x, pair, cond, m) ==
    LET x_attn == MultiHeadBiasedAttentionADALN_MM(x, pair, cond, m)
    IN  MulTokenMask(IF blk.residual_mha THEN TAdd(x_attn, x) ELSE x_attn, m)

_apply_transition(blk, x, cond, m) ==
    LET x_tr == TransitionADALN(x, cond, m)
    IN  MulTokenMask(IF blk.residual_transition THEN TAdd(x_tr, x) ELSE x_tr, m)

\* variant: in sequential mode the attention output is dropped and the
\* transition runs on the block input
MultiheadAttnAndTransition_forward_tr_on_input(blk, x, pair, cond, m) ==
    LET x0 == MulTokenMask(x, m)
        x1 == IF blk.parallel
              THEN TAdd(_apply_mha(blk, x0, pair, cond, m),
                        _apply_transition(blk, x0, cond, m))
              ELSE _apply_transition(blk, x0, cond, m)
    IN  MulTokenMask(x1, m)

\* MultiheadAttnAndTransition.forward
MultiheadAttnAndTransition_forward(blk, x, pair, cond, m) ==
    LET x0 == MulTokenMask(x, m)
        x1 == IF blk.parallel
              THEN TAdd(_apply_mha(blk, x0, pair, cond, m),
                        _apply_transition(blk, x0, cond, m))
              ELSE _apply_transition(blk, _apply_mha(blk, x0, pair, cond, m),
                                     cond, m)
    IN  MulTokenMask(x1, m)

(***************************************************************************)
(* PairReprUpdate.                                                         *)
(***************************************************************************)
\* variant: the pair mask added instead of multiplied
_apply_mask_added(pair, pair_mask) ==
    [p \in DOMAIN pair |-> [q \in DOMAIN pair[p] |->
        [k \in DOMAIN pair[p][q] |-> pair[p][q][k] + pair_mask[p][q]]]]

\* PairReprUpdate._apply_mask: pair_rep * pair_mask[..., None]
_apply_mask(pair, pair_mask) ==
    [p \in DOMAIN pair |-> [q \in DOMAIN pair[p] |->
        VScale(pair_mask[p][q], pair[p][q])]]

\* the two chunks of linear_x(layer_norm_in(x)), each [n, pair_dim]
XProj(x, m) ==
    LET xm == MulTokenMask(x, m)
        h == [p \in DOMAIN xm |->
                Linear(W_linear_x, Zeros(4),
                       LayerNorm(LN_layer_norm_in.gamma,
                                 LN_layer_norm_in.beta, xm[p]))]
    IN  [x_proj_1 |-> [p \in DOMAIN h |-> <<h[p][1], h[p][2]>>],
         x_proj_2 |-> [p \in DOMAIN h |-> <<h[p][3], h[p][4]>>]]

\* variant: chunk 1 indexed by the row token, chunk 2 by the column token
AddProj_by_row(pair, proj) ==
    [p \in DOMAIN pair |-> [q \in DOMAIN pair[p] |->
        VAdd(pair[p][q], VAdd(proj.x_proj_1[p], proj.x_proj_2[q]))]]

\* pair_rep + x_proj_1[:, None, :, :] + x_proj_2[:, :, None, :]
AddProj(pair, proj) ==
    [p \in DOMAIN pair |-> [q \in DOMAIN pair[p] |->
        VAdd(pair[p][q], VAdd(proj.x_proj_1[q], proj.x_proj_2[p]))]]

\* variant: the incoming triangular update before the outgoing one
PairReprUpdate_forward_in_first(use_tri_mult, x, pair, m) ==
    LET pair_mask == PairMask(m)
        p1 == _apply_mask(AddProj(pair, XProj(x, m)), pair_mask)
        p2 == _apply_mask(
                PAdd(p1, TriangleMultiplicationIncoming(p1, pair_mask)),
                pair_mask)
        p3 == _apply_mask(
                PAdd(p2, TriangleMultiplicationOutgoing(p2, pair_mask)),
                pair_mask)
        p4 == IF use_tri_mult THEN p3 ELSE p1
    IN  _apply_mask(PAdd(p4, PairTransition(p4, pair_mask)), pair_mask)

\* PairReprUpdate.forward
PairReprUpdate_forward(use_tri_mult, x, pair, m) ==
    LET pair_mask == PairMask(m)
        p1 == _apply_mask(AddProj(pair, XProj(x, m)), pair_mask)
        p2 == _apply_mask(
                PAdd(p1, TriangleMultiplicationOutgoing(p1, pair_mask)),
                pair_mask)
        p3 == _apply_mask(
                PAdd(p2, TriangleMultiplicationIncoming(p2, pair_mask)),
                pair_mask)
        p4 == IF use_tri_mult THEN p3 ELSE p1
    IN  _apply_mask(PAdd(p4, PairTransition(p4, pair_mask)), pair_mask)

(***************************************************************************)
(* PairReprBuilder.                                                        *)
(***************************************************************************)
\* PairReprBuilder.forward; has_cond is "self.cond_factory is not None"
PairReprBuilder_forward(has_cond, batch) ==
    LET pair_mask == PairMask(batch.mask)
        repr == PairFeatures(batch)
    IN  IF has_cond
        THEN AdaptiveLayerNormPair(repr, PairCondFeatures(batch), pair_mask)
        ELSE repr

(***************************************************************************)
(* ProteinTransformerAF3: construction.                                    *)
(***************************************************************************)
\* self.num_registers after "if self.num_registers is None or <= 0"
NumRegisters(num_registers) ==
    IF IsNone(num_registers) \/ Get(num_registers) <= 0
    THEN 0 ELSE Get(num_registers)

\* variant: the requested update_pair_repr kept without pair bias
EffectiveUpdatePairRepr_keep(use_attn_pair_bias, update_pair_repr) ==
    update_pair_repr

\* self.update_pair_repr after the pair-bias branch: forced off without
\* pair bias
EffectiveUpdatePairRepr(use_attn_pair_bias, update_pair_repr) ==
    IF use_attn_pair_bias THEN update_pair_repr ELSE FALSE

\* variant: the modulus taken of the one-based position
PairUpdateLayers_one_based(update_pair_repr, nlayers, every_n) ==
    IF update_pair_repr
    THEN Some([l \in 1..(nlayers - 1) |-> l % every_n = 0])
    ELSE None

\* self.pair_update_layers: None when the attribute is never set; entry
\* l (block index l - 1) is TRUE for a PairReprUpdate layer and FALSE for a
\* None entry
PairUpdateLayers(update_pair_repr, nlayers, every_n) ==
    IF update_pair_repr
    THEN Some([l \in 1..(nlayers - 1) |-> (l - 1) % every_n = 0])
    ELSE None

\* ProteinTransformerAF3.__init__: the object's fields from kwargs
ProteinTransformerAF3_init(kw) ==
    LET num_registers == NumRegisters(kw.num_registers)
        update_pair_repr ==
            EffectiveUpdatePairRepr(kw.use_attn_pair_bias, kw.update_pair_repr)
    IN  [use_attn_pair_bias |-> kw.use_attn_pair_bias,
         nlayers |-> kw.nlayers,
         update_pair_repr |-> update_pair_repr,
         update_pair_repr_every_n |-> kw.update_pair_repr_every_n,
         use_tri_mult |-> kw.use_tri_mult,
         num_buckets_predict_pair |-> kw.num_buckets_predict_pair,
         num_registers |-> num_registers,
         registers |-> IF num_registers = 0 THEN None
                       ELSE Some(Registers(num_registers)),
         pair_repr_builder |->
            IF kw.use_attn_pair_bias
            THEN Some([cond_factory |-> kw.feats_pair_cond]) ELSE None,
         transformer_layers |->
            [l \in 1..kw.nlayers |->
                MultiheadAttnAndTransition_init(
                    kw.residual_mha, kw.residual_transition,
                    kw.parallel_mha_transition, kw.use_attn_pair_bias)],
         pair_update_layers |->
            PairUpdateLayers(update_pair_repr, kw.nlayers,
                             kw.update_pair_repr_every_n),
         pair_head_prediction |->
            update_pair_repr /\ ~IsNone(kw.num_buckets_predict_pair)]

(***************************************************************************)
(* Register augmentation.  A result with fault = TRUE is a raised          *)
(* exception (None has no attribute shape / is not subscriptable).         *)
(***************************************************************************)
\* variant: the register positions of the mask filled with False
_extend_w_registers_false_regs(slf, xs, pair, m, cond_seq) ==
    IF slf.num_registers = 0
    THEN [fault |-> FALSE, seqs |-> xs, pair |-> pair, mask |-> m,
          cond_seq |-> cond_seq]
    ELSE IF IsNone(pair)
    THEN [fault |-> TRUE, seqs |-> xs, pair |-> pair, mask |-> m,
          cond_seq |-> cond_seq]
    ELSE
    LET n == Len(xs)
        r == slf.num_registers
        reg_expanded == Get(slf.registers)
        true_tensor == [k \in 1..r |-> FALSE]
        zero_pad_top == [k \in 1..r |-> [q \in 1..n |-> Zeros(2)]]
        pair1 == zero_pad_top \o Get(pair)
        zero_pad_left == [p \in 1..(r + n) |-> [k \in 1..r |-> Zeros(2)]]
        pair2 == [p \in 1..(r + n) |-> zero_pad_left[p] \o pair1[p]]
        zero_tensor == [k \in 1..r |-> Zeros(1)]
    IN  [fault |-> FALSE,
         seqs |-> reg_expanded \o xs,
         pair |-> Some(pair2),
         mask |-> true_tensor \o m,
         cond_seq |-> zero_tensor \o cond_seq]

\* variant: the zero columns appended at the trailing edge of the pair rows
_extend_w_registers_pad_right(slf, xs, pair, m, cond_seq) ==
    IF slf.num_registers = 0
    THEN [fault |-> FALSE, seqs |-> xs, pair |-> pair, mask |-> m,
          cond_seq |-> cond_seq]
    ELSE IF IsNone(pair)
    THEN [fault |-> TRUE, seqs |-> xs, pair |-> pair, mask |-> m,
          cond_seq |-> cond_seq]
    ELSE
    LET n == Len(xs)
        r == slf.num_registers
        reg_expanded == Get(slf.registers)
        true_tensor == [k \in 1..r |-> TRUE]
        zero_pad_top == [k \in 1..r |-> [q \in 1..n |-> Zeros(2)]]
        pair1 == zero_pad_top \o Get(pair)
        zero_pad_left == [p \in 1..(r + n) |-> [k \in 1..r |-> Zeros(2)]]
        pair2 == [p \in 1..(r + n) |-> pair1[p] \o zero_pad_left[p]]
        zero_tensor == [k \in 1..r |-> Zeros(1)]
    IN  [fault |-> FALSE,
         seqs |-> reg_expanded \o xs,
         pair |-> Some(pair2),
         mask |-> true_tensor \o m,
         cond_seq |-> zero_tensor \o cond_seq]

_extend_w_registers(slf, xs, pair, m, cond_seq) ==
    IF slf.num_registers = 0
    THEN [fault |-> FALSE, seqs |-> xs, pair |-> pair, mask |-> m,
          cond_seq |-> cond_seq]
    ELSE IF IsNone(pair)
    THEN [fault |-> TRUE, seqs |-> xs, pair |-> pair, mask |-> m,
          cond_seq |-> cond_seq]
    ELSE
    LET n == Len(xs)
        r == slf.num_registers
        reg_expanded == Get(slf.registers)
        true_tensor == [k \in 1..r |-> TRUE]
        zero_pad_top == [k \in 1..r |-> [q \in 1..n |-> Zeros(2)]]
        pair1 == zero_pad_top \o Get(pair)
        zero_pad_left == [p \in 1..(r + n) |-> [k \in 1..r |-> Zeros(2)]]
        pair2 == [p \in 1..(r + n) |-> zero_pad_left[p] \o pair1[p]]
        zero_tensor == [k \in 1..r |-> Zeros(1)]
    IN  [fault |-> FALSE,
         seqs |-> reg_expanded \o xs,
         pair |-> Some(pair2),
         mask |-> true_tensor \o m,
         cond_seq |-> zero_tensor \o cond_seq]

\* variant: the slices start one position early and keep the last register
_undo_registers_off_by_one(slf, xs, pair, m) ==
    IF slf.num_registers = 0
    THEN [fault |-> FALSE, seqs |-> xs, pair |-> pair, mask |-> m]
    ELSE IF IsNone(pair)
    THEN [fault |-> TRUE, seqs |-> xs, pair |-> pair, mask |-> m]
    ELSE
    LET r == slf.num_registers - 1
    IN  [fault |-> FALSE,
         seqs |-> SubSeq(xs, r + 1, Len(xs)),
         pair |-> Some([p \in 1..(Len(Get(pair)) - r) |->
                    SubSeq(Get(pair)[p + r], r + 1, Len(Get(pair)[p + r]))]),
         mask |-> SubSeq(m, r + 1, Len(m))]

\* variant: the pair tensor sliced on its row axis only
_undo_registers_rows_only(slf, xs, pair, m) ==
    IF slf.num_registers = 0
    THEN [fault |-> FALSE, seqs |-> xs, pair |-> pair, mask |-> m]
    ELSE IF IsNone(pair)
    THEN [fault |-> TRUE, seqs |-> xs, pair |-> pair, mask |-> m]
    ELSE
    LET r == slf.num_registers
    IN  [fault |-> FALSE,
         seqs |-> SubSeq(xs, r + 1, Len(xs)),
         pair |-> Some([p \in 1..(Len(Get(pair)) - r) |-> Get(pair)[p + r]]),
         mask |-> SubSeq(m, r + 1, Len(m))]

_undo_registers(slf, xs, pair, m) ==
    IF slf.num_registers = 0
    THEN [fault |-> FALSE, seqs |-> xs, pair |-> pair, mask |-> m]
    ELSE IF IsNone(pair)
    THEN [fault |-> TRUE, seqs |-> xs, pair |-> pair, mask |-> m]
    ELSE
    LET r == slf.num_registers
    IN  [fault |-> FALSE,
         seqs |-> SubSeq(xs, r + 1, Len(xs)),
         pair |-> Some([p \in 1..(Len(Get(pair)) - r) |->
                    SubSeq(Get(pair)[p + r], r + 1, Len(Get(pair)[p + r]))]),
         mask |-> SubSeq(m, r + 1, Len(m))]

(***************************************************************************)
(* ProteinTransformerAF3.forward, one action per step of the pass.         *)
(***************************************************************************)
\* token-axis lengths of the tensors handed to a trunk layer
Widths(xs, pair, m, cond) ==
    [seqs |-> Len(xs), mask |-> Len(m), c |-> Len(cond),
     pair |-> IF IsNone(pair) THEN None
              ELSE Some(<<Len(Get(pair)),
                          {Len(Get(pair)[p]) : p \in DOMAIN Get(pair)}>>)]

Event(op, idx) ==
    [op |-> op, i |-> idx, w |-> Widths(seqs, pair_rep, mask, c)]

\* self.coors_3d_decoder(seqs)
coors_3d_decoder(xs) ==
    [p \in DOMAIN xs |->
        Linear(W_coors_3d_decoder, Zeros(3),
               LayerNorm(LN_coors_3d_decoder.gamma,
                         LN_coors_3d_decoder.beta, xs[p]))]

\* self.pair_head_prediction(pair_rep)
pair_head_prediction(buckets, pair) ==
    [p \in DOMAIN pair |-> [q \in DOMAIN pair[p] |->
        Linear(W_pair_head(buckets), B_pair_head(buckets),
               LayerNorm(LN_pair_head.gamma, LN_pair_head.beta, pair[p][q]))]]

\* torch.mean over all entries of a pair tensor (truncating division)
Mean(pair) ==
    LET rows == [p \in DOMAIN pair |->
                    SumSeq([q \in DOMAIN pair[p] |-> SumSeq(pair[p][q])])]
        count == SumSeq([p \in DOMAIN pair |->
                    SumSeq([q \in DOMAIN pair[p] |-> Len(pair[p][q])])])
    IN  SumSeq(rows) \div count

\* variant: the decoder's output returned unmasked
FinalCoors_unmasked(xs, m) == coors_3d_decoder(xs)

\* self.coors_3d_decoder(seqs) * mask[..., None]
FinalCoors(xs, m) == MulTokenMask(coors_3d_decoder(xs), m)

\* variant: the head guarded by the pair-bias flag
HasPairPred_by_bias(slf) ==
    slf.use_attn_pair_bias /\ ~IsNone(slf.num_buckets_predict_pair)

\* "if self.update_pair_repr and self.num_buckets_predict_pair is not None"
HasPairPred(slf) ==
    slf.update_pair_repr /\ ~IsNone(slf.num_buckets_predict_pair)

Batches ==
    UNION {[mask : [1..n -> BOOLEAN],
            x_t : {[p \in 1..n |-> <<p, 2, 0 - p>>]},
            t : {1}] : n \in 1..MaxN}

\* entry of forward: mask = batch_nn["mask"]
Call(batch) ==
    /\ pc \in {"idle", "done", "fault"}
    /\ pc' = "cond"
    /\ batch_nn' = batch
    /\ mask' = batch.mask
    /\ c' = <<>>
    /\ seqs' = <<>>
    /\ pair_rep' = None
    /\ i' = 0
    /\ final_coors' = <<>>
    /\ nn_out' = <<>>
    /\ trace' = <<>>
    /\ UNCHANGED <<kwargs, self>>

\* c = transition_c_2(transition_c_1(cond_factory(batch_nn), mask), mask)
BuildCond ==
    /\ pc = "cond"
    /\ c' = Transition(W_transition_c_2,
                       Transition(W_transition_c_1, CondFeatures(batch_nn), mask),
                       mask)
    /\ trace' = Append(trace, Event("cond", 0))
    /\ pc' = "seqs"
    /\ UNCHANGED <<kwargs, self, batch_nn, mask, seqs, pair_rep, i,
                   final_coors, nn_out>>

\* coordinate embedding plus initial features, masked
BuildSeqs ==
    /\ pc = "seqs"
    /\ LET coors_3d == MulTokenMask(batch_nn.x_t, mask)
           coors_embed ==
               MulTokenMask([p \in DOMAIN coors_3d |->
                   Linear(W_linear_3d_embed, Zeros(2), coors_3d[p])], mask)
           seq_f_repr == SeqFeatures(batch_nn)
       IN  seqs' = MulTokenMask(TAdd(coors_embed, seq_f_repr), mask)
    /\ trace' = Append(trace, Event("seqs", 0))
    /\ pc' = "pair"
    /\ UNCHANGED <<kwargs, self, batch_nn, mask, c, pair_rep, i,
                   final_coors, nn_out>>

\* pair_rep = None, or the pair builder's output under pair bias
BuildPair ==
    /\ pc = "pair"
    /\ pair_rep' =
        IF self.use_attn_pair_bias
        THEN Some(PairReprBuilder_forward(
                    Get(self.pair_repr_builder).cond_factory, batch_nn))
        ELSE None
    /\ trace' = Append(trace, Event("pair", 0))
    /\ pc' = "extend"
    /\ UNCHANGED <<kwargs, self, batch_nn, mask, c, seqs, i,
                   final_coors, nn_out>>

\* seqs, pair_rep, mask, c = self._extend_w_registers(seqs, pair_rep, mask, c)
ExtendRegisters ==
    /\ pc = "extend"
    /\ LET res == _extend_w_registers(self, seqs, pair_rep, mask, c)
       IN  /\ seqs' = res.seqs
           /\ pair_rep' = res.pair
           /\ mask' = res.mask
           /\ c' = res.cond_seq
           /\ pc' = IF res.fault THEN "fault"
                    ELSE IF 0 < self.nlayers THEN "block" ELSE "undo"
    /\ trace' = Append(trace, Event("extend", 0))
    /\ UNCHANGED <<kwargs, self, batch_nn, i, final_coors, nn_out>>

\* seqs = self.transformer_layers[i](seqs, pair_rep, c, mask)
RunBlock ==
    /\ pc = "block"
    /\ seqs' = MultiheadAttnAndTransition_forward(
                    self.transformer_layers[i + 1], seqs, pair_rep, c, mask)
    /\ trace' = Append(trace, Event("block", i))
    /\ pc' = "sched"
    /\ UNCHANGED <<kwargs, self, batch_nn, mask, c, pair_rep, i,
                   final_coors, nn_out>>

\* the three nested conditions that guard the pair update after block i
PairUpdateDue(slf, idx) ==
    /\ slf.update_pair_repr
    /\ idx < slf.nlayers - 1
    /\ Get(slf.pair_update_layers)[idx + 1]

\* variant: the loop over the blocks stops one block early
PairUpdateStep_short_loop ==
    /\ pc = "sched"
    /\ IF PairUpdateDue(self, i)
       THEN /\ pair_rep' = Some(PairReprUpdate_forward(
                                self.use_tri_mult, seqs, Get(pair_rep), mask))
            /\ trace' = Append(trace, Event("pair_update", i))
       ELSE UNCHANGED <<pair_rep, trace>>
    /\ i' = i + 1
    /\ pc' = IF i + 1 < self.nlayers - 1 THEN "block" ELSE "undo"
    /\ UNCHANGED <<kwargs, self, batch_nn, mask, c, seqs, final_coors, nn_out>>

\* the pair update after block i when due, then the loop's next index
PairUpdateStep ==
    /\ pc = "sched"
    /\ IF PairUpdateDue(self, i)
       THEN /\ pair_rep' = Some(PairReprUpdate_forward(
                                self.use_tri_mult, seqs, Get(pair_rep), mask))
            /\ trace' = Append(trace, Event("pair_update", i))
       ELSE UNCHANGED <<pair_rep, trace>>
    /\ i' = i + 1
    /\ pc' = IF i + 1 < self.nlayers THEN "block" ELSE "undo"
    /\ UNCHANGED <<kwargs, self, batch_nn, mask, c, seqs, final_coors, nn_out>>

\* seqs, pair_rep, mask = self._undo_registers(seqs, pair_rep, mask)
UndoRegisters ==
    /\ pc = "undo"
    /\ LET res == _undo_registers(self, seqs, pair_rep, mask)
       IN  /\ seqs' = res.seqs
           /\ pair_rep' = res.pair
           /\ mask' = res.mask
           /\ pc' = IF res.fault THEN "fault" ELSE "decode"
    /\ trace' = Append(trace, Event("undo", 0))
    /\ UNCHANGED <<kwargs, self, batch_nn, c, i, final_coors, nn_out>>

\* final_coors = self.coors_3d_decoder(seqs) * mask[..., None]
DecodeCoors ==
    /\ pc = "decode"
    /\ final_coors' = FinalCoors(seqs, mask)
    /\ trace' = Append(trace, Event("decode", 0))
    /\ pc' = "out"
    /\ UNCHANGED <<kwargs, self, batch_nn, mask, c, seqs, pair_rep, i, nn_out>>

\* the output dictionary, with the auxiliary head when it applies
BuildOutput ==
    /\ pc = "out"
    /\ IF HasPairPred(self)
       THEN LET pair_pred == pair_head_prediction(
                                Get(self.num_buckets_predict_pair),
                                Get(pair_rep))
                fc1 == [p \in DOMAIN final_coors |->
                          [k \in 1..3 |->
                              final_coors[p][k] + Mean(pair_pred) * 0]]
                fc2 == MulTokenMask(fc1, mask)
            IN  /\ final_coors' = fc2
                /\ nn_out' = [pair_pred |-> pair_pred, coors_pred |-> fc2]
       ELSE /\ nn_out' = [coors_pred |-> final_coors]
            /\ UNCHANGED final_coors
    /\ trace' = Append(trace, Event("out", 0))
    /\ pc' = "done"
    /\ UNCHANGED <<kwargs, self, batch_nn, mask, c, seqs, pair_rep, i>>

(***************************************************************************)
(* The constructed object and its forward passes.                          *)
(***************************************************************************)
Optional(S) == {None} \cup {Some(v) : v \in S}

\* configurations that vary the trunk schedule, the registers and the
\* auxiliary head, with the sequential, doubly residual block
ScheduleConfigs ==
    [use_attn_pair_bias : BOOLEAN,
     nlayers : 1..MaxLayers,
     update_pair_repr : BOOLEAN,
     update_pair_repr_every_n : 1..MaxEveryN,
     use_tri_mult : {FALSE},
     feats_pair_cond : BOOLEAN,
     num_buckets_predict_pair : Optional({2}),
     num_registers : Optional(-1..MaxRegisters),
     residual_mha : {TRUE},
     residual_transition : {TRUE},
     parallel_mha_transition : {FALSE}]

\* configurations that vary the wiring of the layers on a two-block trunk
WiringConfigs ==
    [use_attn_pair_bias : BOOLEAN,
     nlayers : {2},
     update_pair_repr : BOOLEAN,
     update_pair_repr_every_n : {1},
     use_tri_mult : BOOLEAN,
     feats_pair_cond : {FALSE},
     num_buckets_predict_pair : Optional({2}),
     num_registers : Optional({MaxRegisters}),
     residual_mha : BOOLEAN,
     residual_transition : BOOLEAN,
     parallel_mha_transition : BOOLEAN]

KwargsSpace == ScheduleConfigs \cup WiringConfigs

Init ==
    /\ kwargs \in KwargsSpace
    /\ self = ProteinTransformerAF3_init(kwargs)
    /\ pc = "idle"
    /\ batch_nn = <<>>
    /\ mask = <<>>
    /\ c = <<>>
    /\ seqs = <<>>
    /\ pair_rep = None
    /\ i = 0
    /\ final_coors = <<>>
    /\ nn_out = <<>>
    /\ trace = <<>>

Next ==
    \/ \E batch \in Batches : Call(batch)
    \/ BuildCond
    \/ BuildSeqs
    \/ BuildPair
    \/ ExtendRegisters
    \/ RunBlock
    \/ PairUpdateStep
    \/ UndoRegisters
    \/ DecodeCoors
    \/ BuildOutput

Spec == Init /\ [][Next]_vars

(***************************************************************************)
(* Properties of the forward pass.                                         *)
(***************************************************************************)
\* the original input length n and the register count r of the pass
InputLen == Len(batch_nn.mask)
Returned == pc = "done"

\* block i was followed immediately by an invocation of the pair updater
PairUpdateFiredAfter(k) ==
    \E j \in 1..(Len(trace) - 1) :
        /\ trace[j].op = "block" /\ trace[j].i = k
        /\ trace[j + 1].op = "pair_update" /\ trace[j + 1].i = k

\* the schedule as the specification states it
Scheduled(k) ==
    /\ self.update_pair_repr
    /\ k < self.nlayers - 1
    /\ k % self.update_pair_repr_every_n = 0

FiredIndices == {trace[j].i : j \in {k \in DOMAIN trace : trace[k].op = "pair_update"}}

\* C1: the pair updater is invoked right after block i exactly when the
\* effective update_pair_repr is true, i < nlayers-1 and
\* i % update_pair_repr_every_n = 0; never after the last block; with
\* nlayers = 6 and every_n = 2 a complete pass fires exactly at {0, 2, 4}.
C1_PairUpdateSchedule ==
    /\ \A j \in DOMAIN trace :
          trace[j].op = "pair_update" =>
             /\ j > 1
             /\ trace[j - 1].op = "block"
             /\ trace[j - 1].i = trace[j].i
             /\ trace[j].i # self.nlayers - 1
    /\ \A k \in 0..(i - 1) : PairUpdateFiredAfter(k) <=> Scheduled(k)
    /\ (Returned /\ self.update_pair_repr /\ self.nlayers = 6
            /\ self.update_pair_repr_every_n = 2)
          => FiredIndices = {0, 2, 4}

C1_Witness ==
    /\ Returned
    /\ self.update_pair_repr
    /\ self.nlayers = 6
    /\ self.update_pair_repr_every_n = 2
    /\ FiredIndices = {0, 2, 4}

\* C2: the returned coors_pred is zero at every token position where the
\* input mask is False, in every configuration, also after the auxiliary
\* head's zero-valued term has been added.
C2_CoorsMasked ==
    Returned =>
        /\ Len(nn_out.coors_pred) = InputLen
        /\ \A p \in 1..InputLen :
              ~batch_nn.mask[p] => nn_out.coors_pred[p] = <<0, 0, 0>>

C2_Witness ==
    /\ Returned
    /\ "pair_pred" \in DOMAIN nn_out
    /\ self.num_registers > 0
    /\ \E p \in 1..InputLen : ~batch_nn.mask[p]
    /\ \E p \in 1..InputLen : nn_out.coors_pred[p] # <<0, 0, 0>>

\* C3: whenever forward returns pair_pred, pair_pred is zero at every pair
\* cell (p, q) where mask[p] or mask[q] is False.
C3_PairPredMasked ==
    (Returned /\ "pair_pred" \in DOMAIN nn_out) =>
        \A p \in 1..InputLen : \A q \in 1..InputLen :
            (~batch_nn.mask[p] \/ ~batch_nn.mask[q]) =>
                \A k \in DOMAIN nn_out.pair_pred[p][q] :
                    nn_out.pair_pred[p][q][k] = 0

\* C4: without pair bias the forward pass completes for every num_registers,
\* the pair tensor is None at every step and coors_pred has length n.
C4_NoPairBiasCompletes ==
    ~self.use_attn_pair_bias =>
        /\ pc # "fault"
        /\ IsNone(pair_rep)
        /\ Returned => Len(nn_out.coors_pred) = InputLen

\* C5: without pair bias the effective update_pair_repr is False whatever
\* was requested, no pair-update layer and no auxiliary head is built, no
\* forward pass invokes a pair update, and a pass that faults does so in
\* the register extension, not because of the requested update_pair_repr
\* or num_buckets_predict_pair.
C5_ConfigReconciled ==
    ~kwargs.use_attn_pair_bias =>
        /\ self.update_pair_repr = FALSE
        /\ IsNone(self.pair_update_layers)
        /\ ~self.pair_head_prediction
        /\ \A j \in DOMAIN trace : trace[j].op # "pair_update"
        /\ Returned => DOMAIN nn_out = {"coors_pred"}
        /\ pc = "fault" =>
              /\ self.num_registers > 0
              /\ trace[Len(trace)].op = "extend"

C5_Witness ==
    /\ ~kwargs.use_attn_pair_bias
    /\ kwargs.update_pair_repr
    /\ ~IsNone(kwargs.num_buckets_predict_pair)
    /\ kwargs.nlayers > 1
    /\ Returned

\* C6: a block requested with parallel_mha_transition, residual_mha and
\* residual_transition all true has effective residual_transition False and
\* residual_mha True; every other request keeps its residual flags; the
\* flags are those of construction in every state of every forward pass.
C6_ParallelResidualExclusive ==
    \A l \in DOMAIN self.transformer_layers :
        LET blk == self.transformer_layers[l]
            all3 == /\ kwargs.parallel_mha_transition
                    /\ kwargs.residual_mha
                    /\ kwargs.residual_transition
        IN  /\ blk.parallel = kwargs.parallel_mha_transition
            /\ all3 => (blk.residual_mha /\ ~blk.residual_transition)
            /\ ~all3 => /\ blk.residual_mha = kwargs.residual_mha
                        /\ blk.residual_transition = kwargs.residual_transition

C6_Witness ==
    /\ kwargs.parallel_mha_transition
    /\ kwargs.residual_mha
    /\ kwargs.residual_transition
    /\ ~self.transformer_layers[1].residual_transition
    /\ Returned

\* C8 as stated: the output contains pair_pred exactly when
\* num_buckets_predict_pair is set.
C8_PairPredIffBucketsSet ==
    Returned =>
        ("pair_pred" \in DOMAIN nn_out
            <=> ~IsNone(kwargs.num_buckets_predict_pair))

\* C8 amended: the output contains pair_pred, computed from the final pair
\* tensor (after the last pair update and after register removal), exactly
\* when the effective update_pair_repr is true and num_buckets_predict_pair
\* is set; otherwise it contains only coors_pred.
C8_PairPredIffHeadBuilt ==
    Returned =>
        IF self.update_pair_repr /\ ~IsNone(kwargs.num_buckets_predict_pair)
        THEN /\ DOMAIN nn_out = {"coors_pred", "pair_pred"}
             /\ Len(Get(pair_rep)) = InputLen
             /\ nn_out.pair_pred =
                  pair_head_prediction(Get(kwargs.num_buckets_predict_pair),
                                       Get(pair_rep))
        ELSE DOMAIN nn_out = {"coors_pred"}

C8_Witness ==
    /\ Returned
    /\ "pair_pred" \in DOMAIN nn_out
    /\ self.num_registers > 0
    /\ FiredIndices # {}

\* C9: every trunk block and every pair update is invoked on tensors whose
\* token axis has length r + n for seqs, mask, conditioning and both pair
\* axes, while the returned coors_pred (and pair_pred) has length n.
C9_TrunkWidths ==
    /\ \A j \in DOMAIN trace :
          trace[j].op \in {"block", "pair_update"} =>
             LET w == trace[j].w
                 width == self.num_registers + InputLen
             IN  /\ w.seqs = width
                 /\ w.mask = width
                 /\ w.c = width
                 /\ (~IsNone(w.pair) => Get(w.pair) = <<width, {width}>>)
                 /\ (trace[j].op = "pair_update" => ~IsNone(w.pair))
    /\ Returned =>
          /\ Len(nn_out.coors_pred) = InputLen
          /\ \A p \in 1..InputLen : Len(nn_out.coors_pred[p]) = 3
          /\ "pair_pred" \in DOMAIN nn_out =>
                /\ Len(nn_out.pair_pred) = InputLen
                /\ \A p \in 1..InputLen : Len(nn_out.pair_pred[p]) = InputLen

C9_Witness ==
    /\ Returned
    /\ self.num_registers = MaxRegisters
    /\ InputLen = MaxN
    /\ "pair_pred" \in DOMAIN nn_out
    /\ \E j \in DOMAIN trace :
          /\ trace[j].op = "pair_update"
          /\ trace[j].w.seqs = MaxRegisters + MaxN

\* the steps of a complete pass from block k on, as <<op, index>> pairs
RECURSIVE TrunkPlan(_)
TrunkPlan(k) ==
    IF k >= self.nlayers
    THEN <<>>
    ELSE <<<<"block", k>>>>
         \o (IF Scheduled(k) THEN <<<<"pair_update", k>>>> ELSE <<>>)
         \o TrunkPlan(k + 1)

PassPlan ==
    <<<<"cond", 0>>, <<"seqs", 0>>, <<"pair", 0>>, <<"extend", 0>>>>
    \o TrunkPlan(0)
    \o <<<<"undo", 0>>, <<"decode", 0>>, <<"out", 0>>>>

TraceSteps == [j \in DOMAIN trace |-> <<trace[j].op, trace[j].i>>]

\* C11: the steps of a forward pass are taken in one strict order, none
\* repeated: conditioning, token tensor, pair tensor, register extension,
\* blocks 0..nlayers-1 in increasing order each once and each followed by
\* its pair update when scheduled, register removal once after the last
\* block, then one decode on the register-free token tensor.  Every state of
\* a pass has taken a prefix of that plan, a returned pass the whole plan.
C11_StrictStepOrder ==
    /\ Len(trace) <= Len(PassPlan)
    /\ TraceSteps = SubSeq(PassPlan, 1, Len(trace))
    /\ Returned => TraceSteps = PassPlan
    /\ \A j \in DOMAIN trace :
          /\ trace[j].op = "undo" =>
                trace[j].w.seqs = self.num_registers + InputLen
          /\ trace[j].op = "decode" => trace[j].w.seqs = InputLen

C11_Witness ==
    /\ Returned
    /\ self.nlayers = 4
    /\ self.num_registers > 0
    /\ self.update_pair_repr
    /\ self.update_pair_repr_every_n = 2
    /\ TraceSteps = PassPlan
    /\ Len(trace) = 13

\* the mask and the conditioning every trunk layer must receive
ExtendedMask == [k \in 1..self.num_registers |-> TRUE] \o batch_nn.mask

ConditioningOnce ==
    Transition(W_transition_c_2,
               Transition(W_transition_c_1, CondFeatures(batch_nn),
                          batch_nn.mask),
               batch_nn.mask)

ExtendedConditioning ==
    [k \in 1..self.num_registers |-> <<0>>] \o ConditioningOnce

\* C12: between register extension and register removal no trunk block and
\* no pair update changes the mask or the conditioning tensor: every block
\* receives the conditioning computed once at the start of the pass and the
\* mask of r True entries followed by the input mask; after register
\* removal the mask equals the input mask.
C12_MaskAndCondFrame ==
    /\ pc \in {"block", "sched", "undo"} =>
          /\ mask = ExtendedMask
          /\ c = ExtendedConditioning
    /\ pc \in {"decode", "out", "done"} =>
          /\ mask = batch_nn.mask
          /\ c = ExtendedConditioning

C12_Witness ==
    /\ pc = "sched"
    /\ i = 1
    /\ self.num_registers > 0
    /\ FiredIndices = {0}
    /\ mask = ExtendedMask
    /\ \E p \in DOMAIN mask : ~mask[p]
    /\ \E p \in DOMAIN c : c[p] # <<0>>

\* the block about to run, its masked input and the raw outputs of its two
\* adaptive sub-layers on an input x
CurrentBlock == self.transformer_layers[i + 1]
BlockInput == MulTokenMask(seqs, mask)
AttnRaw(x) == MultiHeadBiasedAttentionADALN_MM(x, pair_rep, c, mask)
TransRaw(x) == TransitionADALN(x, c, mask)
TScale(k, x) == [p \in DOMAIN x |-> VScale(k, x[p])]

\* the attention sub-path on the masked block input, residual included
AttnPath ==
    MulTokenMask(IF CurrentBlock.residual_mha
                 THEN TAdd(AttnRaw(BlockInput), BlockInput)
                 ELSE AttnRaw(BlockInput), mask)

\* the transition sub-path on an input x, its residual adding x
TransPath(x) ==
    MulTokenMask(IF CurrentBlock.residual_transition
                 THEN TAdd(TransRaw(x), x)
                 ELSE TransRaw(x), mask)

BlockRuns == pc = "block" /\ pc' = "sched"

\* C14: in sequential mode the transition sub-path takes the attention
\* sub-path's masked, residual-included output as its input and its
\* residual adds that input; in parallel mode both sub-paths take the same
\* masked block input and the block output is the masked sum of the two
\* sub-path outputs.
C14_CombinationPolicy ==
    [][BlockRuns =>
        seqs' = IF CurrentBlock.parallel
                THEN MulTokenMask(TAdd(AttnPath, TransPath(BlockInput)), mask)
                ELSE MulTokenMask(TransPath(AttnPath), mask)]_vars

C14_Witness ==
    /\ pc = "sched"
    /\ i = 1
    /\ ~self.transformer_layers[1].parallel
    /\ self.transformer_layers[1].residual_mha
    /\ self.transformer_layers[1].residual_transition
    /\ self.use_attn_pair_bias
    /\ \E p \in DOMAIN mask : ~mask[p]
    /\ \E p \in DOMAIN seqs : seqs[p] # <<0, 0>>

\* the number of times the masked block input is added in parallel mode
ParallelCopies ==
    IF kwargs.residual_mha \/ kwargs.residual_transition THEN 1 ELSE 0

\* C18: in parallel mode, for each of the four requested combinations of
\* residual_mha and residual_transition, the block output is the masked sum
\* of the two raw sub-layer outputs and the masked block input taken once
\* when a residual flag was requested and not at all otherwise; in
\* sequential mode with both flags the transition residual adds the
\* attention sub-path output, so the block input is carried once.
C18_InputAddedAtMostOnce ==
    [][BlockRuns =>
        /\ kwargs.parallel_mha_transition =>
              seqs' = MulTokenMask(
                        TAdd(TAdd(AttnRaw(BlockInput), TransRaw(BlockInput)),
                             TScale(ParallelCopies, BlockInput)), mask)
        /\ (~kwargs.parallel_mha_transition /\ kwargs.residual_mha
                /\ kwargs.residual_transition) =>
              LET a == MulTokenMask(TAdd(AttnRaw(BlockInput), BlockInput), mask)
              IN  seqs' = MulTokenMask(
                            TAdd(TAdd(TransRaw(a), AttnRaw(BlockInput)),
                                 TScale(1, BlockInput)), mask)]_vars

C18_Witness ==
    /\ pc = "sched"
    /\ i = 1
    /\ kwargs.parallel_mha_transition
    /\ kwargs.residual_mha
    /\ kwargs.residual_transition
    /\ \E p \in DOMAIN mask : ~mask[p]
    /\ \E p \in DOMAIN seqs : seqs[p] # <<0, 0>>
    /\ trace[Len(trace)].op = "block"

(***************************************************************************)
(* Register augmentation on its own: _extend_w_registers followed at once  *)
(* by _undo_registers on an arbitrary tuple with a present pair tensor.    *)
(***************************************************************************)
TokenValues == {<<0, 0>>, <<3, -2>>}

\* tuples (seqs, pair_rep, mask, cond) of every length up to MaxN
Tuples ==
    UNION {[seqs : [1..n -> TokenValues],
            pair : {[p \in 1..n |-> [q \in 1..n |-> <<2 * p + q, k>>]]
                        : k \in 0..1},
            mask : [1..n -> BOOLEAN],
            cond : {[p \in 1..n |-> <<p>>]}] : n \in 1..MaxN}

RegisterConfigs ==
    [use_attn_pair_bias : {TRUE},
     nlayers : {1},
     update_pair_repr : {FALSE},
     update_pair_repr_every_n : {1},
     use_tri_mult : {FALSE},
     feats_pair_cond : {FALSE},
     num_buckets_predict_pair : {None},
     num_registers : Optional(-1..MaxRegisters),
     residual_mha : {TRUE},
     residual_transition : {TRUE},
     parallel_mha_transition : {FALSE}]

InitTuple(configs) ==
    /\ kwargs \in configs
    /\ self = ProteinTransformerAF3_init(kwargs)
    /\ batch_nn \in Tuples
    /\ seqs = batch_nn.seqs
    /\ pair_rep = Some(batch_nn.pair)
    /\ mask = batch_nn.mask
    /\ c = batch_nn.cond
    /\ i = 0
    /\ final_coors = <<>>
    /\ nn_out = <<>>
    /\ trace = <<>>

InitRegisters == InitTuple(RegisterConfigs) /\ pc = "reg_in"

RegExtend ==
    /\ pc = "reg_in"
    /\ LET res == _extend_w_registers(self, seqs, pair_rep, mask, c)
       IN  /\ seqs' = res.seqs
           /\ pair_rep' = res.pair
           /\ mask' = res.mask
           /\ c' = res.cond_seq
           /\ pc' = IF res.fault THEN "fault" ELSE "reg_ext"
    /\ UNCHANGED <<kwargs, self, batch_nn, i, final_coors, nn_out, trace>>

RegUndo ==
    /\ pc = "reg_ext"
    /\ LET res == _undo_registers(self, seqs, pair_rep, mask)
       IN  /\ seqs' = res.seqs
           /\ pair_rep' = res.pair
           /\ mask' = res.mask
           /\ pc' = IF res.fault THEN "fault" ELSE "reg_out"
    /\ UNCHANGED <<kwargs, self, batch_nn, c, i, final_coors, nn_out, trace>>

NextRegisters == RegExtend \/ RegUndo

SpecRegisters == InitRegisters /\ [][NextRegisters]_vars

\* C7: for every num_registers (None and non-positive count as 0) and every
\* tuple with a present pair tensor, _extend_w_registers followed at once by
\* _undo_registers returns seqs, pair_rep and mask identical to the
\* originals; with r = 0 both operations return their arguments unchanged.
C7_RegisterTransparency ==
    /\ self.num_registers =
          IF IsNone(kwargs.num_registers) THEN 0
          ELSE IF Get(kwargs.num_registers) <= 0 THEN 0
          ELSE Get(kwargs.num_registers)
    /\ pc # "fault"
    /\ pc = "reg_out" =>
          /\ seqs = batch_nn.seqs
          /\ pair_rep = Some(batch_nn.pair)
          /\ mask = batch_nn.mask
    /\ (self.num_registers = 0 /\ pc = "reg_ext") =>
          /\ seqs = batch_nn.seqs
          /\ pair_rep = Some(batch_nn.pair)
          /\ mask = batch_nn.mask
          /\ c = batch_nn.cond

C7_Witness ==
    /\ pc = "reg_out"
    /\ self.num_registers = MaxRegisters
    /\ Len(batch_nn.mask) = MaxN
    /\ \E p \in DOMAIN batch_nn.mask : ~batch_nn.mask[p]
    /\ seqs = batch_nn.seqs
    /\ \E p \in DOMAIN seqs : seqs[p] # <<0, 0>>

\* C13: for r = num_registers > 0, _extend_w_registers returns a token
\* tensor whose first r positions are the learned register vectors (the
\* same for every input) followed by the original tokens in order, a mask of
\* r True entries followed by the original mask, a pair tensor that is zero
\* in every cell with row or column index < r and the original pair tensor
\* shifted by r on both axes elsewhere, and a conditioning tensor that is
\* zero at the first r positions followed by the original conditioning.
C13_ExtendContents ==
    (pc = "reg_ext" /\ self.num_registers > 0) =>
        LET r == self.num_registers
            n == Len(batch_nn.mask)
        IN  /\ Len(seqs) = r + n /\ Len(mask) = r + n /\ Len(c) = r + n
            /\ Len(Get(pair_rep)) = r + n
            /\ \A k \in 1..r :
                  /\ seqs[k] = Registers(r)[k]
                  /\ mask[k] = TRUE
                  /\ c[k] = <<0>>
            /\ \A p \in 1..n :
                  /\ seqs[r + p] = batch_nn.seqs[p]
                  /\ mask[r + p] = batch_nn.mask[p]
                  /\ c[r + p] = batch_nn.cond[p]
            /\ \A p \in 1..(r + n) :
                  /\ Len(Get(pair_rep)[p]) = r + n
                  /\ \A q \in 1..(r + n) :
                        Get(pair_rep)[p][q] =
                            IF p <= r \/ q <= r THEN <<0, 0>>
                            ELSE batch_nn.pair[p - r][q - r]

C13_Witness ==
    /\ pc = "reg_ext"
    /\ self.num_registers = MaxRegisters
    /\ Len(batch_nn.mask) = MaxN
    /\ \E p \in DOMAIN batch_nn.mask : ~batch_nn.mask[p]
    /\ Get(pair_rep)[1][1] = <<0, 0>>
    /\ Get(pair_rep)[MaxRegisters + 1][MaxRegisters + 1] # <<0, 0>>
    /\ seqs[MaxRegisters + 1] # <<0, 0>>

(***************************************************************************)
(* PairReprUpdate.forward statement by statement.  batch_nn keeps the      *)
(* arguments, trace the pair tensor after every statement.                 *)
(***************************************************************************)
PairUpdateConfigs ==
    [use_attn_pair_bias : {TRUE},
     nlayers : {1},
     update_pair_repr : {TRUE},
     update_pair_repr_every_n : {1},
     use_tri_mult : BOOLEAN,
     feats_pair_cond : {FALSE},
     num_buckets_predict_pair : {None},
     num_registers : {None},
     residual_mha : {TRUE},
     residual_transition : {TRUE},
     parallel_mha_transition : {FALSE}]

InitPairUpdate == InitTuple(PairUpdateConfigs) /\ pc = "pu_proj"

PairUpdateFrame ==
    UNCHANGED <<kwargs, self, batch_nn, mask, c, seqs, i, final_coors, nn_out>>

\* pair_rep = pair_rep + x_proj_1[:, None, :, :] + x_proj_2[:, :, None, :]
PUProject ==
    /\ pc = "pu_proj"
    /\ pair_rep' = Some(AddProj(Get(pair_rep), XProj(seqs, mask)))
    /\ trace' = Append(trace, [op |-> "project", out |-> Get(pair_rep')])
    /\ pc' = "pu_mask_1"
    /\ PairUpdateFrame

\* pair_rep = self._apply_mask(pair_rep, pair_mask), after each sub-step
PUMask ==
    /\ pc \in {"pu_mask_1", "pu_mask_2", "pu_mask_3", "pu_mask_4"}
    /\ pair_rep' = Some(_apply_mask(Get(pair_rep), PairMask(mask)))
    /\ trace' = Append(trace, [op |-> "mask", out |-> Get(pair_rep')])
    /\ pc' = CASE pc = "pu_mask_1" ->
                    IF self.use_tri_mult THEN "pu_tri_out" ELSE "pu_trans"
               [] pc = "pu_mask_2" -> "pu_tri_in"
               [] pc = "pu_mask_3" -> "pu_trans"
               [] pc = "pu_mask_4" -> "pu_done"
    /\ PairUpdateFrame

\* pair_rep = pair_rep + self.tri_mult_out(pair_rep, pair_mask)
PUTriOut ==
    /\ pc = "pu_tri_out"
    /\ pair_rep' = Some(PAdd(Get(pair_rep),
                    TriangleMultiplicationOutgoing(Get(pair_rep),
                                                   PairMask(mask))))
    /\ trace' = Append(trace, [op |-> "tri_out", out |-> Get(pair_rep')])
    /\ pc' = "pu_mask_2"
    /\ PairUpdateFrame

\* pair_rep = pair_rep + self.tri_mult_in(pair_rep, pair_mask)
PUTriIn ==
    /\ pc = "pu_tri_in"
    /\ pair_rep' = Some(PAdd(Get(pair_rep),
                    TriangleMultiplicationIncoming(Get(pair_rep),
                                                   PairMask(mask))))
    /\ trace' = Append(trace, [op |-> "tri_in", out |-> Get(pair_rep')])
    /\ pc' = "pu_mask_3"
    /\ PairUpdateFrame

\* pair_rep = pair_rep + self.transition_out(pair_rep, pair_mask)
PUTransition ==
    /\ pc = "pu_trans"
    /\ pair_rep' = Some(PAdd(Get(pair_rep),
                    PairTransition(Get(pair_rep), PairMask(mask))))
    /\ trace' = Append(trace, [op |-> "transition", out |-> Get(pair_rep')])
    /\ pc' = "pu_mask_4"
    /\ PairUpdateFrame

NextPairUpdate == PUProject \/ PUMask \/ PUTriOut \/ PUTriIn \/ PUTransition

SpecPairUpdate == InitPairUpdate /\ [][NextPairUpdate]_vars

\* the sub-steps of one invocation, in order
PairUpdateOrder ==
    <<"project", "mask">>
    \o (IF kwargs.use_tri_mult
        THEN <<"tri_out", "mask", "tri_in", "mask">> ELSE <<>>)
    \o <<"transition", "mask">>

\* the pair tensor a logged statement started from
PairBefore(j) == IF j = 1 THEN batch_nn.pair ELSE trace[j - 1].out

ZeroAtMaskedCells(pr, m) ==
    \A p \in DOMAIN m : \A q \in DOMAIN m :
        ~(m[p] /\ m[q]) => pr[p][q] = <<0, 0>>

\* C15: the statements of one invocation are a prefix of: projection add,
\* mask, then only with use_tri_mult the outgoing update, mask, the incoming
\* update, mask, then the pair transition, mask; the triangular updates and
\* the transition add their result to the tensor they were given; every
\* mask application zeroes the cells with a masked endpoint and keeps the
\* others; the returned tensor is the result of PairReprUpdate.forward and
\* is zero at every cell with a masked endpoint.
C15_PairUpdateSubSteps ==
    /\ Len(trace) <= Len(PairUpdateOrder)
    /\ [j \in DOMAIN trace |-> trace[j].op]
            = SubSeq(PairUpdateOrder, 1, Len(trace))
    /\ \A j \in DOMAIN trace :
          LET before == PairBefore(j)
              pm == PairMask(mask)
          IN  /\ trace[j].op = "mask" =>
                    /\ ZeroAtMaskedCells(trace[j].out, mask)
                    /\ \A p \in DOMAIN mask : \A q \in DOMAIN mask :
                          mask[p] /\ mask[q] =>
                              trace[j].out[p][q] = before[p][q]
              /\ trace[j].op = "tri_out" =>
                    trace[j].out =
                        PAdd(before, TriangleMultiplicationOutgoing(before, pm))
              /\ trace[j].op = "tri_in" =>
                    trace[j].out =
                        PAdd(before, TriangleMultiplicationIncoming(before, pm))
              /\ trace[j].op = "transition" =>
                    trace[j].out = PAdd(before, PairTransition(before, pm))
    /\ pc = "pu_done" =>
          /\ Len(trace) = Len(PairUpdateOrder)
          /\ Get(pair_rep) = trace[Len(trace)].out
          /\ Get(pair_rep) = PairReprUpdate_forward(
                                kwargs.use_tri_mult, batch_nn.seqs,
                                batch_nn.pair, batch_nn.mask)
          /\ ZeroAtMaskedCells(Get(pair_rep), mask)

C15_Witness ==
    /\ pc = "pu_done"
    /\ kwargs.use_tri_mult
    /\ Len(trace) = 8
    /\ trace[3].op = "tri_out" /\ trace[5].op = "tri_in"
    /\ trace[3].out # trace[2].out
    /\ trace[5].out # trace[4].out
    /\ \E p \in DOMAIN mask : ~mask[p]
    /\ \E p \in DOMAIN mask : mask[p]

\* C17: the projection statement gives, for every cell (i, j), the existing
\* pair value plus the first chunk of the projection of the masked,
\* normalised token j plus the second chunk of that of token i; the mask
\* application that follows keeps this sum where both endpoints are
\* unmasked.
C17_ProjectionAdd ==
    \A j \in DOMAIN trace :
        LET xm == MulTokenMask(batch_nn.seqs, mask)
            h(p) == Linear(W_linear_x, Zeros(4),
                           LayerNorm(LN_layer_norm_in.gamma,
                                     LN_layer_norm_in.beta, xm[p]))
            proj1(p) == <<h(p)[1], h(p)[2]>>
            proj2(p) == <<h(p)[3], h(p)[4]>>
            sum(p, q) == VAdd(batch_nn.pair[p][q], VAdd(proj1(q), proj2(p)))
        IN  /\ (j = 1 /\ trace[j].op = "project") =>
                  \A p \in DOMAIN mask : \A q \in DOMAIN mask :
                      trace[j].out[p][q] = sum(p, q)
            /\ j = 2 =>
                  \A p \in DOMAIN mask : \A q \in DOMAIN mask :
                      trace[j].out[p][q] =
                          IF mask[p] /\ mask[q] THEN sum(p, q) ELSE <<0, 0>>

C17_Witness ==
    /\ Len(trace) >= 2
    /\ trace[1].op = "project"
    /\ Len(mask) = 2
    /\ mask[1] /\ mask[2]
    /\ batch_nn.seqs[1] # batch_nn.seqs[2]
    /\ trace[2].out[1][2] # batch_nn.pair[1][2]
    /\ trace[2].out[1][2] # trace[2].out[2][1]

\* C16: whenever pair bias is enabled, the pair tensor every trunk block of
\* the forward pass is given (built by the pair representation builder,
\* extended with registers, possibly replaced by pair updates) is zero at
\* every cell with a masked endpoint.
C16_BlockPairMasked ==
    (pc = "block" /\ ~IsNone(pair_rep)) =>
        ZeroAtMaskedCells(Get(pair_rep), mask)

(***************************************************************************)
(* The masking step on its own: repeated multiplication by the token mask  *)
(* and by the pair mask.  trace holds the result of every application.     *)
(***************************************************************************)
InitMasking == InitTuple(RegisterConfigs) /\ pc = "mask"

\* x = x * mask[..., None]
ApplyTokenMask ==
    /\ pc = "mask"
    /\ Len(trace) < MaxMaskings
    /\ seqs' = MulTokenMask(seqs, mask)
    /\ trace' = Append(trace, [op |-> "token", out |-> seqs'])
    /\ UNCHANGED <<kwargs, self, pc, batch_nn, mask, c, pair_rep, i,
                   final_coors, nn_out>>

\* pair_rep = self._apply_mask(pair_rep, pair_mask)
ApplyPairMask ==
    /\ pc = "mask"
    /\ Len(trace) < MaxMaskings
    /\ pair_rep' = Some(_apply_mask(Get(pair_rep), PairMask(mask)))
    /\ trace' = Append(trace, [op |-> "pair", out |-> Get(pair_rep')])
    /\ UNCHANGED <<kwargs, self, pc, batch_nn, mask, c, seqs, i,
                   final_coors, nn_out>>

NextMasking == ApplyTokenMask \/ ApplyPairMask

SpecMasking == InitMasking /\ [][NextMasking]_vars

\* C10: masking is exact and idempotent: every application of the token
\* mask (pair mask) leaves the entries at True positions (cells with both
\* endpoints True) as in the original and sets all others to zero, so a
\* second application gives the result of the first.
C10_MaskingIdempotentExact ==
    /\ \A j \in DOMAIN trace :
          /\ trace[j].op = "token" =>
                \A p \in DOMAIN mask :
                    trace[j].out[p] = IF mask[p] THEN batch_nn.seqs[p]
                                      ELSE <<0, 0>>
          /\ trace[j].op = "pair" =>
                \A p \in DOMAIN mask : \A q \in DOMAIN mask :
                    trace[j].out[p][q] =
                        IF mask[p] /\ mask[q] THEN batch_nn.pair[p][q]
                        ELSE <<0, 0>>
    /\ \A j \in DOMAIN trace : \A k \in DOMAIN trace :
          trace[j].op = trace[k].op => trace[j].out = trace[k].out

C10_Witness ==
    /\ Len(trace) = 3
    /\ trace[1].op = "token" /\ trace[2].op = "token" /\ trace[3].op = "pair"
    /\ \E p \in DOMAIN mask : ~mask[p] /\ batch_nn.seqs[p] # <<0, 0>>
    /\ \E p \in DOMAIN mask : mask[p] /\ batch_nn.seqs[p] # <<0, 0>>
    /\ trace[2].out = trace[1].out

====
